---- MODULE Spec2Model ----
(***************************************************************************)
(* heredity.py: exact inference by enumeration over a family pedigree.     *)
(*                                                                         *)
(* Python's float is IEEE-754 binary64.  A float is modelled as a record   *)
(* [m, e] standing for m * 2^e, where m is a natural number of exactly 53  *)
(* bits (or zero); every arithmetic operation computes the exact result    *)
(* and rounds it to nearest, ties to even, as the hardware does.  Naturals *)
(* wider than 32-bit integers are sequences of base-2^14 digits,           *)
(* least significant first, with no leading zero digit.                    *)
(***************************************************************************)
EXTENDS Integers, Sequences, FiniteSets, TLC

\* Value1(Op, a) = Op(a), with a evaluated before Op is applied to it (the
\* model checker otherwise evaluates an argument where it is first used,
\* nested inside the work of its user).
Value1(Op(_), a) == CHOOSE r \in {Op(x) : x \in {a}} : TRUE
Value2(Op(_, _), a, b) == CHOOSE r \in {Op(x, y) : x \in {a}, y \in {b}} : TRUE

\* ------------------------------------------------------------------------
\* Wide naturals
\* ------------------------------------------------------------------------
LimbBits == 14
Base == 16384

Pow2Small(k) == <<1, 2, 4, 8, 16, 32, 64, 128, 256, 512, 1024, 2048, 4096, 8192, 16384>>[k + 1]

Max(S) == CHOOSE x \in S : \A y \in S : y <= x

\* a without its leading zero digits.
BStrip(a) == SubSeq(a, 1, Max({0} \cup {i \in 1..Len(a) : a[i] # 0}))

RECURSIVE BFromNat(_)
BFromNat(n) == IF n = 0 THEN <<>> ELSE <<n % Base>> \o BFromNat(n \div Base)

Limb(a, i) == IF i <= Len(a) THEN a[i] ELSE 0

\* The carry into digit i of a + b: some lower digit generates one and
\* every digit between passes it on.
Carry(a, b, i) ==
    IF \E j \in 1..(i - 1) :
          /\ Limb(a, j) + Limb(b, j) >= Base
          /\ \A k \in (j + 1)..(i - 1) : Limb(a, k) + Limb(b, k) = Base - 1
    THEN 1 ELSE 0

BAdd(a, b) ==
    BStrip([i \in 1..(Max({Len(a), Len(b)}) + 1) |->
               (Limb(a, i) + Limb(b, i) + Carry(a, b, i)) % Base])

\* The borrow from digit i of a - b.
Borrow(a, b, i) ==
    IF \E j \in 1..(i - 1) :
          /\ Limb(a, j) < Limb(b, j)
          /\ \A k \in (j + 1)..(i - 1) : Limb(a, k) = Limb(b, k)
    THEN 1 ELSE 0

\* a - b for a >= b
BSub(a, b) ==
    BStrip([i \in 1..Len(a) |->
               (Limb(a, i) - Limb(b, i) - Borrow(a, b, i) + Base) % Base])

\* -1, 0 or 1 as a < b, a = b or a > b: the leading digit that differs decides.
BCmp(a, b) ==
    IF Len(a) < Len(b) THEN -1
    ELSE IF Len(a) > Len(b) THEN 1
    ELSE IF a = b THEN 0
    ELSE IF a[Max({i \in 1..Len(a) : a[i] # b[i]})] < b[Max({i \in 1..Len(a) : a[i] # b[i]})]
    THEN -1 ELSE 1

BAbsDiff(a, b) == IF BCmp(a, b) >= 0 THEN BSub(a, b) ELSE BSub(b, a)

\* a * s for 0 <= s <= Base: the low halves of the digit products plus
\* their high halves one digit up.
BMulSmall(a, s) ==
    IF s = 0 \/ a = <<>> THEN <<>>
    ELSE BAdd([i \in 1..Len(a) |-> (a[i] * s) % Base],
              <<0>> \o [i \in 1..Len(a) |-> (a[i] * s) \div Base])

\* The sum of the digit products a[i] * b[k + 1 - i] for i from `from` up:
\* column k of the long multiplication (below 2^31 when one of the
\* factors has at most seven digits).
RECURSIVE Column(_, _, _, _)
Column(a, b, k, from) ==
    IF from > Len(a) \/ from > k THEN 0
    ELSE (IF k + 1 - from <= Len(b) THEN a[from] * b[k + 1 - from] ELSE 0)
         + Column(a, b, k, from + 1)

\* a * b: every column sum is lo + mid * Base + hi * Base^2 with lo and mid
\* digits, and the three parts are added each at its place.
BMul(a, b) ==
    IF a = <<>> \/ b = <<>> THEN <<>>
    ELSE LET cols == [k \in 1..(Len(a) + Len(b) - 1) |-> Column(a, b, k, 1)]
         IN  BAdd(BAdd([k \in DOMAIN cols |-> cols[k] % Base],
                       <<0>> \o [k \in DOMAIN cols |-> (cols[k] \div Base) % Base]),
                  <<0, 0>> \o [k \in DOMAIN cols |-> cols[k] \div (Base * Base)])

\* a * 2^k: whole digits of zeros, then every digit split across two.
BShl(a, k) ==
    IF a = <<>> THEN <<>>
    ELSE [i \in 1..(k \div LimbBits) |-> 0]
         \o BStrip([i \in 1..(Len(a) + 1) |->
                      ((Limb(a, i) * Pow2Small(k % LimbBits)) % Base)
                      + (IF i = 1 THEN 0
                         ELSE (a[i - 1] * Pow2Small(k % LimbBits)) \div Base)])

\* floor(a / 2^k)
BShr(a, k) ==
    IF k \div LimbBits >= Len(a) THEN <<>>
    ELSE BStrip([i \in 1..(Len(a) - (k \div LimbBits)) |->
                    (a[i + (k \div LimbBits)] \div Pow2Small(k % LimbBits))
                    + ((Limb(a, i + (k \div LimbBits) + 1) % Pow2Small(k % LimbBits))
                       * Pow2Small(LimbBits - (k % LimbBits)))])

RECURSIVE SmallBitLen(_)
SmallBitLen(n) == IF n = 0 THEN 0 ELSE 1 + SmallBitLen(n \div 2)

BitLen(a) == IF a = <<>> THEN 0
             ELSE LimbBits * (Len(a) - 1) + SmallBitLen(a[Len(a)])

BIsOdd(a) == a # <<>> /\ a[1] % 2 = 1

\* The digit floor(r / d), for 0 <= r < d * Base and d > 0: the leading
\* digits of r and d bracket it, and the bracket is searched.
BDigit(r, d) ==
    LET len == Len(d)
        rt  == Limb(r, len + 1) * Base + Limb(r, len)
        dt  == d[len]
        lo  == rt \div (dt + 1)
        hi  == IF (rt + 1) \div dt < Base THEN (rt + 1) \div dt ELSE Base - 1
    IN  CHOOSE x \in lo..hi :
            /\ BCmp(BMulSmall(d, x), r) <= 0
            /\ BCmp(BMulSmall(d, x + 1), r) > 0

\* Long division of n by d (d > 0), digit i of n down to digit 1, with
\* running remainder r < d: each step brings down one digit of n and
\* gives one digit of the quotient.
RECURSIVE BDivLoop(_, _, _, _)
BDivLoop(n, d, i, r) ==
    IF i = 0 THEN [q |-> <<>>, r |-> r]
    ELSE Value1(LAMBDA r2 :
           Value1(LAMBDA x :
             Value1(LAMBDA rest : [q |-> rest.q \o <<x>>, r |-> rest.r],
                    BDivLoop(n, d, i - 1, BSub(r2, BMulSmall(d, x)))),
             BDigit(r2, d)),
           BStrip(<<n[i]>> \o r))

\* The leading Len(d) - 1 digits of n are less than d: they start the
\* remainder, and the division takes the digits below them.
BDivMod(n, d) ==
    LET low == IF Len(n) >= Len(d) THEN Len(n) - Len(d) + 1 ELSE 0
        qr  == BDivLoop(n, d, low, BStrip(SubSeq(n, low + 1, Len(n))))
    IN  [q |-> BStrip(qr.q), r |-> qr.r]

\* ------------------------------------------------------------------------
\* IEEE-754 binary64 values and operations (round to nearest, ties to even)
\* ------------------------------------------------------------------------
MantBits == 53

FZero == [m |-> <<>>, e |-> 0]

\* The mantissa of n rounded to MantBits bits when s more than that are
\* there to drop: one is added when the dropped bits are more than half,
\* or exactly half and the kept bits odd.
RoundUp(n, s) ==
    LET q == BShr(n, s)
        c == BCmp(BSub(n, BShl(q, s)), BShl(<<1>>, s - 1))
    IN  IF c > 0 \/ (c = 0 /\ BIsOdd(q)) THEN BAdd(q, <<1>>) ELSE q

\* The double nearest to n * 2^e.
RoundF(n, e) ==
    LET len == BitLen(n)
        q   == RoundUp(n, len - MantBits)
    IN  IF len = 0 THEN FZero
        ELSE IF len <= MantBits
        THEN [m |-> BShl(n, MantBits - len), e |-> e - (MantBits - len)]
        ELSE IF BitLen(q) > MantBits
        THEN [m |-> BShr(q, 1), e |-> e + len - MantBits + 1]
        ELSE [m |-> q, e |-> e + len - MantBits]

\* a * b
FMulV(a, b) == RoundF(BMul(a.m, b.m), a.e + b.e)
FMul(a, b) == Value2(FMulV, a, b)

FMinE(a, b) == IF a.m = <<>> THEN b.e ELSE IF b.m = <<>> THEN a.e
               ELSE IF a.e < b.e THEN a.e ELSE b.e

FAlign(a, e) == IF a.m = <<>> THEN <<>> ELSE BShl(a.m, a.e - e)

FAddV(a, b) == RoundF(BAdd(FAlign(a, FMinE(a, b)), FAlign(b, FMinE(a, b))), FMinE(a, b))
FAdd(a, b) == Value2(FAddV, a, b)

\* a - b for a >= b >= 0
FSubV(a, b) == RoundF(BSub(FAlign(a, FMinE(a, b)), FAlign(b, FMinE(a, b))), FMinE(a, b))
FSub(a, b) == Value2(FSubV, a, b)

DivBits == 56

\* Twice the quotient, plus one when the division left a remainder.
Sticky(qr) == BAdd(BShl(qr.q, 1), IF qr.r = <<>> THEN <<>> ELSE <<1>>)

\* The double nearest to (n / d) * 2^e for naturals n > 0 and d > 0, when
\* n * 2^s / d has more than MantBits + 1 bits.
Ratio(n, d, s, e) == RoundF(Sticky(BDivMod(BShl(n, s), d)), e - s - 1)

\* a / b for a > 0, b > 0
FDivV(a, b) == Ratio(a.m, b.m, DivBits, a.e - b.e)
FDiv(a, b) == Value2(FDivV, a, b)

LitBits == 70

\* The double a decimal literal num/den denotes (num, den naturals below
\* Base, den > 0).
FLit(num, den) ==
    IF num = 0 THEN FZero
    ELSE Ratio(BFromNat(num), BFromNat(den), LitBits, 0)

\* ------------------------------------------------------------------------
\* heredity.py
\* ------------------------------------------------------------------------
\* The integer 1 as a float: 2^52 * 2^-52.
One == [m |-> BShl(<<1>>, MantBits - 1), e |-> 1 - MantBits]

\* Python's None, True and False as they appear in a person's fields.
None == "None"

PyBool(b) == IF b THEN "True" ELSE "False"

\* The table with the trait probabilities of one copy exchanged.
Hundredths_one_copy_exchanged ==
    [gene     |-> [g \in 0..2 |-> IF g = 2 THEN 1 ELSE IF g = 1 THEN 3 ELSE 96],
     trait    |-> [g \in 0..2 |->
                     IF g = 2 THEN [t \in BOOLEAN |-> IF t THEN 65 ELSE 35]
                     ELSE IF g = 1 THEN [t \in BOOLEAN |-> IF t THEN 44 ELSE 56]
                     ELSE [t \in BOOLEAN |-> IF t THEN 1 ELSE 99]],
     mutation |-> 1]

\* The literals of PROBS, each a number of hundredths.
Hundredths ==
    [gene     |-> [g \in 0..2 |-> IF g = 2 THEN 1 ELSE IF g = 1 THEN 3 ELSE 96],
     trait    |-> [g \in 0..2 |->
                     IF g = 2 THEN [t \in BOOLEAN |-> IF t THEN 65 ELSE 35]
                     ELSE IF g = 1 THEN [t \in BOOLEAN |-> IF t THEN 56 ELSE 44]
                     ELSE [t \in BOOLEAN |-> IF t THEN 1 ELSE 99]],
     mutation |-> 1]

\* PROBS: the doubles its literals denote.
PROBS ==
    [gene     |-> [g \in 0..2 |-> FLit(Hundredths.gene[g], 100)],
     trait    |-> [g \in 0..2 |-> [t \in BOOLEAN |-> FLit(Hundredths.trait[g][t], 100)]],
     mutation |-> FLit(Hundredths.mutation, 100)]

\* `people` is a dict keyed by name, iterated in insertion (CSV row) order:
\* a sequence of person records with distinct names.
Keys(people) == {people[i].name : i \in 1..Len(people)}

Person(people, name) == people[CHOOSE i \in 1..Len(people) : people[i].name = name]

\* itertools.combinations(s, r) for the list s, each tuple turned into a set.
RECURSIVE combinations(_, _)
combinations(s, r) ==
    IF r = 0 THEN <<{}>>
    ELSE IF Len(s) < r THEN <<>>
    ELSE LET with == combinations(Tail(s), r - 1)
         IN  [k \in 1..Len(with) |-> {Head(s)} \cup with[k]]
             \o combinations(Tail(s), r)

RECURSIVE chain(_, _)
chain(s, r) == IF r > Len(s) THEN <<>> ELSE combinations(s, r) \o chain(s, r + 1)

\* powerset(s), where s is the list the set iterates as.
powerset(s) == chain(s, 0)

num_genes(person, one_gene, two_genes) ==
    IF person \in one_gene THEN 1 ELSE IF person \in two_genes THEN 2 ELSE 0

\* The literal 0.5 of inherit_prob.
Half == FLit(1, 2)

\* The cases of two copies and of none exchanged.
inherit_prob_exchanged(n) ==
    IF n = 1 THEN Half
    ELSE IF n = 2 THEN PROBS.mutation
    ELSE FSub(One, PROBS.mutation)

inherit_prob(n) ==
    IF n = 1 THEN Half
    ELSE IF n = 2 THEN FSub(One, PROBS.mutation)
    ELSE PROBS.mutation

\* One copy counted from the father's side only.
inherited_from_father_only(n, f_prob, m_prob) ==
    IF n = 1
    THEN FMul(f_prob, FSub(One, m_prob))
    ELSE IF n = 2
    THEN FMul(f_prob, m_prob)
    ELSE FMul(FSub(One, f_prob), FSub(One, m_prob))

\* The gene factor of a person with recorded parents (lines 163-174).
inherited(n, f_prob, m_prob) ==
    IF n = 1
    THEN FAdd(FMul(f_prob, FSub(One, m_prob)), FMul(m_prob, FSub(One, f_prob)))
    ELSE IF n = 2
    THEN FMul(f_prob, m_prob)
    ELSE FMul(FSub(One, f_prob), FSub(One, m_prob))

\* The factor without the probability of the trait.
person_prob_without_trait(person, one_gene, two_genes, have_trait) ==
    LET n == num_genes(person.name, one_gene, two_genes)
    IN  IF person.father = None /\ person.mother = None
        THEN FMul(One, PROBS.gene[n])
        ELSE FMul(One, inherited(n,
                                 inherit_prob(num_genes(person.father, one_gene, two_genes)),
                                 inherit_prob(num_genes(person.mother, one_gene, two_genes))))

\* The body of joint_probability's loop for one person: the value of `prob`.
person_prob(person, one_gene, two_genes, have_trait) ==
    LET n    == num_genes(person.name, one_gene, two_genes)
        has  == person.name \in have_trait
        gene == IF person.father = None /\ person.mother = None
                THEN FMul(One, PROBS.gene[n])
                ELSE FMul(One, inherited(n,
                                         inherit_prob(num_genes(person.father, one_gene, two_genes)),
                                         inherit_prob(num_genes(person.mother, one_gene, two_genes))))
    IN  FMul(gene, PROBS.trait[n][has])

RECURSIVE joint_loop(_, _, _, _, _, _)
joint_loop(people, i, one_gene, two_genes, have_trait, joint_prob) ==
    IF i > Len(people) THEN joint_prob
    ELSE Value1(LAMBDA next : joint_loop(people, i + 1, one_gene, two_genes, have_trait, next),
                FMul(joint_prob, person_prob(people[i], one_gene, two_genes, have_trait)))

joint_probability(people, one_gene, two_genes, have_trait) ==
    joint_loop(people, 1, one_gene, two_genes, have_trait, One)

\* p stored in the buckets instead of added to them.
update_by_assignment(probs, one_gene, two_genes, have_trait, p) ==
    [person \in DOMAIN probs |->
        [gene  |-> [g \in 0..2 |->
                      IF g = num_genes(person, one_gene, two_genes)
                      THEN p ELSE probs[person].gene[g]],
         trait |-> [b \in BOOLEAN |->
                      IF b = (person \in have_trait)
                      THEN p ELSE probs[person].trait[b]]]]

\* p added to every person's trait True bucket, whatever have_trait says.
update_trait_always_true(probs, one_gene, two_genes, have_trait, p) ==
    [person \in DOMAIN probs |->
        [gene  |-> [g \in 0..2 |->
                      IF g = num_genes(person, one_gene, two_genes)
                      THEN FAdd(probs[person].gene[g], p) ELSE probs[person].gene[g]],
         trait |-> [b \in BOOLEAN |->
                      IF b THEN FAdd(probs[person].trait[b], p) ELSE probs[person].trait[b]]]]

update(probs, one_gene, two_genes, have_trait, p) ==
    [person \in DOMAIN probs |->
        [gene  |-> [g \in 0..2 |->
                      IF g = num_genes(person, one_gene, two_genes)
                      THEN FAdd(probs[person].gene[g], p) ELSE probs[person].gene[g]],
         trait |-> [b \in BOOLEAN |->
                      IF b = (person \in have_trait)
                      THEN FAdd(probs[person].trait[b], p) ELSE probs[person].trait[b]]]]

\* The sum without the bucket the dict lists last.
total_without_last(probs, person, dist) ==
    IF dist = "gene"
    THEN FAdd(FAdd(FZero, probs[person].gene[2]), probs[person].gene[1])
    ELSE FAdd(FZero, probs[person].trait[TRUE])

\* sum(dist.values()): the gene dict iterates 2, 1, 0 and the trait dict
\* True, False (their literal order in main).
total(probs, person, dist) ==
    IF dist = "gene"
    THEN FAdd(FAdd(FAdd(FZero, probs[person].gene[2]), probs[person].gene[1]),
              probs[person].gene[0])
    ELSE FAdd(FAdd(FZero, probs[person].trait[TRUE]), probs[person].trait[FALSE])

\* Lines 220-221: every value of the distribution d times 1/total.
scale(d, t) ==
    LET inverse == FDiv(One, t)
    IN  [v \in DOMAIN d |-> FMul(d[v], inverse)]

\* normalize visits the (person, distribution) pairs in order: pair 2i - 1
\* is the gene distribution of the i-th person and pair 2i the trait one.
pair_person(keys, k) == keys[(k + 1) \div 2]

pair_dist(k) == IF k % 2 = 1 THEN "gene" ELSE "trait"

pair_of(keys, person, dist) ==
    LET i == CHOOSE j \in 1..Len(keys) : keys[j] = person
    IN  IF dist = "gene" THEN 2 * i - 1 ELSE 2 * i

\* The first pair whose total is zero, where 1/total raises
\* ZeroDivisionError; one past the last pair when there is none.  (A
\* distribution is rescaled only after its own total is taken, so the
\* totals are those of the marginals normalize is called with.)
raise_at(probs, keys) ==
    LET zero == {k \in 1..(2 * Len(keys)) :
                   total(probs, pair_person(keys, k), pair_dist(k)) = FZero}
    IN  IF zero = {} THEN 2 * Len(keys) + 1
        ELSE CHOOSE k \in zero : \A j \in zero : k <= j

\* normalize: the pairs before the raising one are rescaled, the others
\* are left as they were.
normalize(probs, keys) ==
    LET stop == raise_at(probs, keys)
    IN  [probabilities |->
            [person \in DOMAIN probs |->
                [gene  |-> IF pair_of(keys, person, "gene") < stop
                           THEN scale(probs[person].gene, total(probs, person, "gene"))
                           ELSE probs[person].gene,
                 trait |-> IF pair_of(keys, person, "trait") < stop
                           THEN scale(probs[person].trait, total(probs, person, "trait"))
                           ELSE probs[person].trait]],
         raised |-> stop <= 2 * Len(keys)]

\* ------------------------------------------------------------------------
\* Inputs: pedigrees as load_data returns them, and the order in which each
\* set of names iterates (it depends on the process's string hashing).
\* ------------------------------------------------------------------------
MaxPeople == 3

Traits == {"True", "False", None}

Row(name, mother, father, trait) ==
    [name |-> name, mother |-> mother, father |-> father, trait |-> trait]

\* The pedigrees that give each row of `shape` (<<name, mother, father>>)
\* one of the trait values.
RECURSIVE WithTraits(_)
WithTraits(shape) ==
    IF shape = <<>> THEN {<<>>}
    ELSE {<<Row(Head(shape)[1], Head(shape)[2], Head(shape)[3], t)>> \o rest :
            t \in Traits, rest \in WithTraits(Tail(shape))}

Shapes ==
    { <<>>,
      << <<"James", None, None>> >>,
      << <<"James", "James", "James">> >>,
      << <<"Harry", "Lily", "James">> >>,
      << <<"Harry", None, "James">> >>,
      << <<"James", None, None>>, <<"Lily", None, None>> >>,
      << <<"Harry", "James", "James">>, <<"James", None, None>> >>,
      << <<"Harry", "Lily", "James">>, <<"James", None, None>>, <<"Lily", None, None>> >>,
      << <<"Harry", "Lily", "James">>, <<"James", None, None>>, <<"Lily", None, None>>,
         <<"Rose", "Lily", "James">> >> }

Pedigrees == UNION {WithTraits(shape) : shape \in {sh \in Shapes : Len(sh) <= MaxPeople}}

Perms(S) == {q \in [1..Cardinality(S) -> S] : \A a \in S : \E i \in DOMAIN q : q[i] = a}

Restrict(q, S) == SelectSeq(q, LAMBDA a : a \in S)

\* list(s) for every set s of names when every set iterates in the order
\* of the rows.
RowOrder(rows) ==
    [S \in SUBSET Keys(rows) |->
        Restrict([i \in 1..Len(rows) |-> rows[i].name], S)]

\* list(s) when every set iterates in the reverse of the order of the rows.
ReverseRowOrder(rows) ==
    [S \in SUBSET Keys(rows) |->
        Restrict([i \in 1..Len(rows) |-> rows[Len(rows) + 1 - i].name], S)]

\* list(s) for every set s of names: every order of every set for up to
\* two rows, and for more the order of the rows and its reverse.
ListOrders(rows) ==
    IF Len(rows) <= 2
    THEN {o \in [SUBSET Keys(rows) -> UNION {Perms(S) : S \in SUBSET Keys(rows)}] :
            \A S \in SUBSET Keys(rows) : o[S] \in Perms(S)}
    ELSE {RowOrder(rows), ReverseRowOrder(rows)}

\* ------------------------------------------------------------------------
\* main
\* ------------------------------------------------------------------------
VARIABLES people, order, probabilities, pc, ht, og, tg, calls, p

vars == <<people, order, probabilities, pc, ht, og, tg, calls, p>>

names == Keys(people)

keys == [i \in 1..Len(people) |-> people[i].name]

have_traits == powerset(order[names])

one_genes == powerset(order[names])

\* The inner loop over every subset of the names, the ones in one_gene too.
two_geness_of_all_names(one_gene) == powerset(order[names])

two_geness(one_gene) == powerset(order[names \ one_gene])

fails_evidence(have_trait) ==
    \E person \in names :
        /\ Person(people, person).trait # None
        /\ Person(people, person).trait # PyBool(person \in have_trait)

Zeroed(ks) ==
    [person \in ks |-> [gene  |-> [g \in 0..2 |-> FZero],
                        trait |-> [b \in BOOLEAN |-> FZero]]]

Init ==
    /\ people \in Pedigrees
    /\ order \in ListOrders(people)
    /\ probabilities = Zeroed(Keys(people))
    /\ pc = "loop"
    /\ ht = 1
    /\ og = 1
    /\ tg = 1
    /\ calls = <<>>
    /\ p = FZero

\* `continue`: the set of people with the trait contradicts the evidence.
Skip ==
    /\ pc = "loop"
    /\ ht <= Len(have_traits)
    /\ fails_evidence(have_traits[ht])
    /\ ht' = ht + 1
    /\ UNCHANGED <<people, order, probabilities, pc, og, tg, calls, p>>

\* One pass of the innermost loop body, and the step to the next triple.
Score ==
    /\ pc = "loop"
    /\ ht <= Len(have_traits)
    /\ ~fails_evidence(have_traits[ht])
    /\ LET have_trait == have_traits[ht]
           one_gene   == one_genes[og]
           two_genes  == two_geness(one_gene)[tg]
       IN  /\ \E jp \in {joint_probability(people, one_gene, two_genes, have_trait)} :
                /\ p' = jp
                /\ probabilities' = update(probabilities, one_gene, two_genes, have_trait, jp)
           /\ calls' = Append(calls, [one_gene |-> one_gene, two_genes |-> two_genes,
                                      have_trait |-> have_trait])
           /\ IF tg < Len(two_geness(one_gene))
              THEN /\ tg' = tg + 1
                   /\ UNCHANGED <<og, ht>>
              ELSE IF og < Len(one_genes)
              THEN /\ tg' = 1
                   /\ og' = og + 1
                   /\ UNCHANGED ht
              ELSE /\ tg' = 1
                   /\ og' = 1
                   /\ ht' = ht + 1
    /\ UNCHANGED <<people, order, pc>>

\* normalize(probabilities) inside a try whose handler passes.
Normalize_exception_swallowed ==
    /\ pc = "loop"
    /\ ht > Len(have_traits)
    /\ \E r \in {normalize(probabilities, keys)} :
         /\ probabilities' = r.probabilities
         /\ pc' = "done"
    /\ UNCHANGED <<people, order, ht, og, tg, calls, p>>

\* The loops are over: normalize(probabilities).
Normalize ==
    /\ pc = "loop"
    /\ ht > Len(have_traits)
    /\ \E r \in {normalize(probabilities, keys)} :
         /\ probabilities' = r.probabilities
         /\ pc' = IF r.raised THEN "ZeroDivisionError" ELSE "done"
    /\ UNCHANGED <<people, order, ht, og, tg, calls, p>>

Next == Skip \/ Score \/ Normalize

Spec == Init /\ [][Next]_vars

\* ------------------------------------------------------------------------
\* normalize on marginals of any kind: every bucket holds one of a few
\* masses, zero among them.
\* ------------------------------------------------------------------------
MaxNormPeople == 2

Founders == <<"Harry", "James", "Lily", "Rose">>

NormPedigrees ==
    {[i \in 1..n |-> Row(Founders[i], None, None, None)] :
        n \in 1..(IF MaxNormPeople < Len(Founders) THEN MaxNormPeople ELSE Len(Founders))}

Masses == {FZero, FLit(3, 100)}

InitNorm ==
    /\ people \in NormPedigrees
    /\ order = RowOrder(people)
    /\ probabilities \in [Keys(people) -> [gene : [0..2 -> Masses], trait : [BOOLEAN -> Masses]]]
    /\ pc = "loop"
    /\ ht = Len(powerset(order[Keys(people)])) + 1
    /\ og = 1
    /\ tg = 1
    /\ calls = <<>>
    /\ p = FZero

NextNorm == Normalize

SpecNorm == InitNorm /\ [][NextNorm]_vars

\* ------------------------------------------------------------------------
\* main with the hypotheses taken in any order: the loops visit the same
\* triples whatever the sets' iteration order, and nothing but the order
\* of the visits depends on it.
\* ------------------------------------------------------------------------
MaxPermPeople == 1

Range(s) == {s[i] : i \in 1..Len(s)}

\* The triples the three loops reach past the `continue`.
hypotheses ==
    {[one_gene |-> one_gene, two_genes |-> two_genes, have_trait |-> have_trait] :
        have_trait \in {h \in Range(have_traits) : ~fails_evidence(h)},
        one_gene \in Range(one_genes),
        two_genes \in SUBSET names}
    \cap {c \in [one_gene : SUBSET names, two_genes : SUBSET names, have_trait : SUBSET names] :
            c.two_genes \in Range(two_geness(c.one_gene))}

InitPerm ==
    /\ people \in {q \in Pedigrees :
                     /\ Len(q) >= 1
                     /\ Len(q) <= MaxPermPeople
                     /\ \A i \in 1..Len(q) : q[i].father = None /\ q[i].mother = None}
    /\ order = RowOrder(people)
    /\ probabilities = Zeroed(Keys(people))
    /\ pc = "loop"
    /\ ht = 1
    /\ og = 1
    /\ tg = 1
    /\ calls = <<>>
    /\ p = FZero

\* One pass of the innermost loop body, for any triple not scored yet;
\* after the last one the loops are over.
ScoreAny ==
    /\ pc = "loop"
    /\ ht <= Len(have_traits)
    /\ \E c \in hypotheses \ Range(calls) :
          /\ \E jp \in {joint_probability(people, c.one_gene, c.two_genes, c.have_trait)} :
                /\ p' = jp
                /\ probabilities' = update(probabilities, c.one_gene, c.two_genes, c.have_trait, jp)
          /\ calls' = Append(calls, c)
    /\ ht' = IF Len(calls) + 1 = Cardinality(hypotheses) THEN Len(have_traits) + 1 ELSE ht
    /\ UNCHANGED <<people, order, pc, og, tg>>

NextPerm == ScoreAny \/ Normalize

SpecPerm == InitPerm /\ [][NextPerm]_vars

\* ------------------------------------------------------------------------
\* Properties
\* ------------------------------------------------------------------------
LastCall == calls[Len(calls)]

Known == {person \in names : Person(people, person).trait # None}

\* The triples the loop is meant to score: have_trait agrees with every
\* known trait, one_gene and two_genes are disjoint sets of names.
ConsistentTriples ==
    {c \in [one_gene : SUBSET names, two_genes : SUBSET names, have_trait : SUBSET names] :
        /\ c.one_gene \cap c.two_genes = {}
        /\ \A person \in Known :
              Person(people, person).trait = PyBool(person \in c.have_trait)}

\* C3: at every moment the triple scored last is a consistent one that was
\* not scored before, and when the run is over the triples scored are all
\* the consistent ones, 2^(n-k) * 3^n of them for n people of whom k have a
\* known trait.
C3_ScoredOncePerConsistentTriple ==
    /\ calls # <<>> =>
          /\ LastCall \in ConsistentTriples
          /\ \A i \in 1..(Len(calls) - 1) : calls[i] # LastCall
    /\ pc = "done" =>
          /\ {calls[i] : i \in 1..Len(calls)} = ConsistentTriples
          /\ Len(calls) = 2 ^ (Len(people) - Cardinality(Known)) * 3 ^ Len(people)

\* C3 witness: a finished run on two or more people, some with a known
\* trait and some without.
C3_Witness ==
    /\ pc = "done"
    /\ Len(people) >= 2
    /\ Known # {}
    /\ Known # names
    /\ Len(calls) = 2 ^ (Len(people) - Cardinality(Known)) * 3 ^ Len(people)

\* The rows whose gene factor comes from the parents (the else branch of
\* joint_probability's test of father and mother).
Children == {i \in 1..Len(people) : ~(people[i].father = None /\ people[i].mother = None)}

\* The sums of the three child probabilities for transmission
\* probabilities f_prob and m_prob, added in each of the three orders.
ChildSums(f_prob, m_prob) ==
    LET c0 == inherited(0, f_prob, m_prob)
        c1 == inherited(1, f_prob, m_prob)
        c2 == inherited(2, f_prob, m_prob)
    IN  {FAdd(FAdd(c0, c1), c2), FAdd(FAdd(c0, c2), c1), FAdd(FAdd(c1, c2), c0)}

\* C8: whatever gene counts the hypothesis scored last gives the parents of
\* a person, the probabilities joint_probability multiplies in for that
\* person having 0, 1 and 2 copies add up to exactly 1.0.
C8_ChildProbabilitiesSumToOne ==
    calls # <<>> =>
        \A i \in Children :
            ChildSums(inherit_prob(num_genes(people[i].father, LastCall.one_gene, LastCall.two_genes)),
                      inherit_prob(num_genes(people[i].mother, LastCall.one_gene, LastCall.two_genes)))
            = {One}

\* C8 witness: a hypothesis was scored in which a person's father has two
\* copies and the mother one, and the three probabilities add up to 1.0.
C8_Witness ==
    /\ calls # <<>>
    /\ \E i \in Children :
          /\ num_genes(people[i].father, LastCall.one_gene, LastCall.two_genes) = 2
          /\ num_genes(people[i].mother, LastCall.one_gene, LastCall.two_genes) = 1
          /\ ChildSums(inherit_prob(2), inherit_prob(1)) = {One}

\* The claimed value of joint_probability, from the claim's words.
Copies(name, call) ==
    IF name \in call.two_genes THEN 2 ELSE IF name \in call.one_gene THEN 1 ELSE 0

Transmission(n) ==
    CASE n = 1 -> Half
      [] n = 2 -> FSub(One, PROBS.mutation)
      [] n = 0 -> PROBS.mutation

GeneTerm(person, call) ==
    LET f == Transmission(Copies(person.father, call))
        m == Transmission(Copies(person.mother, call))
    IN  IF person.father = None
        THEN PROBS.gene[Copies(person.name, call)]
        ELSE CASE Copies(person.name, call) = 2 -> FMul(f, m)
               [] Copies(person.name, call) = 0 -> FMul(FSub(One, f), FSub(One, m))
               [] Copies(person.name, call) = 1 ->
                     FAdd(FMul(f, FSub(One, m)), FMul(m, FSub(One, f)))

TraitTerm(person, call) ==
    PROBS.trait[Copies(person.name, call)][person.name \in call.have_trait]

RECURSIVE TermProduct(_, _)
TermProduct(i, call) ==
    IF i = 0 THEN One
    ELSE FMul(TermProduct(i - 1, call),
              FMul(GeneTerm(people[i], call), TraitTerm(people[i], call)))

BothOrNeither ==
    \A i \in 1..Len(people) : (people[i].father = None) <=> (people[i].mother = None)

\* C4: when every person has both parents recorded or neither, the value
\* joint_probability returned for the hypothesis scored last is the
\* product over the people of gene term times trait term.
C4_JointIsProductOfTerms ==
    (calls # <<>> /\ BothOrNeither) => p = TermProduct(Len(people), LastCall)

\* C4 witness: a hypothesis was scored on a pedigree with a parentless
\* person and a person with both parents, where the latter has one copy,
\* and the value returned is the product.
C4_Witness ==
    /\ calls # <<>>
    /\ BothOrNeither
    /\ \E i \in 1..Len(people) : people[i].father = None
    /\ \E i \in Children : Copies(people[i].name, LastCall) = 1
    /\ p = TermProduct(Len(people), LastCall)

\* Exact comparisons of doubles.  Scaled(x, k) is the natural x * 2^k, for
\* k at least the Shift of x.
Shift(xs) == Max({0} \cup {-xs[i].e : i \in 1..Len(xs)})

Scaled(x, k) == IF x.m = <<>> THEN <<>> ELSE BShl(x.m, x.e + k)

RECURSIVE SumScaled(_, _)
SumScaled(xs, k) ==
    IF xs = <<>> THEN <<>> ELSE BAdd(Scaled(Head(xs), k), SumScaled(Tail(xs), k))

\* The exact sum of the doubles xs is within 1e-9 of num / den.
Near(xs, num, den) ==
    LET k == Shift(xs)
    IN  BCmp(BMul(BAbsDiff(BMul(SumScaled(xs, k), BFromNat(den)), BShl(BFromNat(num), k)),
                  BFromNat(1000000000)),
             BShl(BFromNat(den), k)) <= 0

\* The doubles x and y are within 1e-9 of each other.
FNear(x, y) ==
    LET k == Shift(<<x, y>>)
    IN  BCmp(BMul(BAbsDiff(Scaled(x, k), Scaled(y, k)), BFromNat(1000000000)),
             BShl(<<1>>, k)) <= 0

\* x < y
FLess(x, y) == BCmp(Scaled(x, Shift(<<x, y>>)), Scaled(y, Shift(<<x, y>>))) < 0

\* x printed with four decimals (main's f"{value:.4f}") reads n / 10000.
RoundsTo4(x, n) ==
    LET k == Shift(<<x>>)
    IN  BCmp(BAbsDiff(BMul(Scaled(x, k), BFromNat(20000)), BShl(BFromNat(2 * n), k)),
             BShl(<<1>>, k)) < 0

GeneSeq(person) ==
    <<probabilities[person].gene[0], probabilities[person].gene[1], probabilities[person].gene[2]>>

TraitSeq(person) ==
    <<probabilities[person].trait[TRUE], probabilities[person].trait[FALSE]>>

\* C1: normalize does not raise in a run of main, and when the run is over
\* every person's gene distribution and trait distribution each sum to 1,
\* to within 1e-9.
C1_DistributionsSumToOne ==
    /\ pc # "ZeroDivisionError"
    /\ pc = "done" =>
          \A person \in names : Near(GeneSeq(person), 1, 1) /\ Near(TraitSeq(person), 1, 1)

\* C1 witness: a finished run on a pedigree with a person with recorded
\* parents and with a known and an unknown trait, where the sums are 1 to
\* within 1e-9.
C1_Witness ==
    /\ pc = "done"
    /\ Children # {}
    /\ Known # {}
    /\ Known # names
    /\ \A person \in names : Near(GeneSeq(person), 1, 1) /\ Near(TraitSeq(person), 1, 1)

\* C2: when the run is over, every person with a known trait has
\* probability exactly 1.0 for the observed value and exactly 0.0 for the
\* other.
C2_KnownTraitIsCertain ==
    pc = "done" =>
        \A person \in Known :
            /\ probabilities[person].trait[Person(people, person).trait = "True"] = One
            /\ probabilities[person].trait[Person(people, person).trait # "True"] = FZero

LoopIsOver == pc = "loop" /\ ht > Len(have_traits)

\* One person without parents whose trait is known to be True.
SingleWithTrait == Len(people) = 1 /\ Children = {} /\ people[1].trait = "True"

\* The gene masses when the loop is over are 0.0096, 0.0168 and 0.0065 and
\* add up to 0.0329, to within 1e-9.
MassesAsClaimed ==
    /\ Near(<<probabilities[people[1].name].gene[0]>>, 96, 10000)
    /\ Near(<<probabilities[people[1].name].gene[1]>>, 168, 10000)
    /\ Near(<<probabilities[people[1].name].gene[2]>>, 65, 10000)
    /\ Near(GeneSeq(people[1].name), 329, 10000)

\* The gene distribution prints as n0, n1, n2 ten-thousandths for 0, 1 and
\* 2 copies, and the trait distribution as 1.0000 and 0.0000.
PrintsAs(n0, n1, n2) ==
    /\ RoundsTo4(probabilities[people[1].name].gene[0], n0)
    /\ RoundsTo4(probabilities[people[1].name].gene[1], n1)
    /\ RoundsTo4(probabilities[people[1].name].gene[2], n2)
    /\ RoundsTo4(probabilities[people[1].name].trait[TRUE], 10000)
    /\ RoundsTo4(probabilities[people[1].name].trait[FALSE], 0)

\* C5 as claimed: for one person without parents whose trait is known to
\* be True, the gene masses when the loop is over are 0.0096, 0.0168 and
\* 0.0065 with sum 0.0329, and the normalized gene distribution rounded to
\* four decimals is 0.2917, 0.5107, 0.1976 for 0, 1, 2 copies, the trait
\* distribution 1.0000, 0.0000.
C5_AsClaimed ==
    SingleWithTrait =>
        /\ LoopIsOver => MassesAsClaimed
        /\ pc = "done" => PrintsAs(2917, 5107, 1976)

\* C5 amended: the same, with the normalized gene distribution rounded to
\* four decimals being 0.2918, 0.5106, 0.1976 for 0, 1, 2 copies.
C5_SinglePersonWithTrait ==
    SingleWithTrait =>
        /\ LoopIsOver => MassesAsClaimed
        /\ pc = "done" => PrintsAs(2918, 5106, 1976)

\* C5 witness: the run on that pedigree is over after three hypotheses,
\* with the gene distribution printing as 0.2918, 0.5106, 0.1976.
C5_Witness ==
    /\ SingleWithTrait
    /\ pc = "done"
    /\ Len(calls) = 3
    /\ PrintsAs(2918, 5106, 1976)

\* The unconditional probability of the trait being t: the sum over the
\* gene counts g of prior(g) * P(t | g).
TraitMarginal(t) ==
    FAdd(FAdd(FMul(PROBS.gene[0], PROBS.trait[0][t]), FMul(PROBS.gene[1], PROBS.trait[1][t])),
         FMul(PROBS.gene[2], PROBS.trait[2][t]))

\* C6: for one person without parents whose trait is unknown, hypotheses
\* with and without the trait are scored, and when the run is over the
\* trait distribution is the unconditional trait marginal (to within
\* 1e-9), both its values strictly between 0 and 1, and the gene
\* distribution is the prior (to within 1e-9).
C6_SinglePersonUnknownTrait ==
    (Len(people) = 1 /\ Children = {} /\ people[1].trait = None /\ pc # "loop") =>
        /\ pc = "done"
        /\ \E i \in 1..Len(calls) : calls[i].have_trait = {}
        /\ \E i \in 1..Len(calls) : calls[i].have_trait = {people[1].name}
        /\ \A t \in BOOLEAN :
              /\ FNear(probabilities[people[1].name].trait[t], TraitMarginal(t))
              /\ FLess(FZero, probabilities[people[1].name].trait[t])
              /\ FLess(probabilities[people[1].name].trait[t], One)
        /\ \A g \in 0..2 : FNear(probabilities[people[1].name].gene[g], PROBS.gene[g])

\* C6 witness: the run on that pedigree is over after six hypotheses, and
\* the probability of the trait is 0.0329 to within 1e-9.
C6_Witness ==
    /\ Len(people) = 1
    /\ Children = {}
    /\ people[1].trait = None
    /\ pc = "done"
    /\ Len(calls) = 6
    /\ Near(<<probabilities[people[1].name].trait[TRUE]>>, 329, 10000)

ParentsOf(name) ==
    IF name \in names
    THEN {Person(people, name).father, Person(people, name).mother} \ {None}
    ELSE {}

\* The ancestors of the people in S, up to k generations back.
RECURSIVE Ancestors(_, _)
Ancestors(S, k) ==
    IF k = 0 THEN {}
    ELSE UNION {ParentsOf(a) : a \in S} \cup Ancestors(UNION {ParentsOf(a) : a \in S}, k - 1)

\* Both parents or neither, every parent a person of the pedigree, and
\* nobody their own ancestor.
WellFormed ==
    /\ BothOrNeither
    /\ \A a \in names : ParentsOf(a) \subseteq names
    /\ \A a \in names : a \notin Ancestors({a}, Len(people))

Buckets == {<<"gene", 0>>, <<"gene", 1>>, <<"gene", 2>>, <<"trait", TRUE>>, <<"trait", FALSE>>}

\* C10 as claimed: on a well-formed pedigree without trait evidence, when
\* the loop is over every distribution adds up to exactly 1.0 (each is the
\* sum of joint_probability over all the hypotheses) and normalize changes
\* nothing.
C10_AsClaimed ==
    [][(LoopIsOver /\ WellFormed /\ Known = {}) =>
          /\ \A person \in names : \A dist \in {"gene", "trait"} :
                total(probabilities, person, dist) = One
          /\ probabilities' = probabilities]_vars

\* C10 amended: on a well-formed pedigree without trait evidence, when the
\* loop is over every distribution adds up to 1 to within 1e-9, and
\* normalize changes no bucket by more than 1e-9.
C10_JointIsNearlyADistribution ==
    [][(LoopIsOver /\ WellFormed /\ Known = {}) =>
          /\ \A person \in names : Near(GeneSeq(person), 1, 1) /\ Near(TraitSeq(person), 1, 1)
          /\ \A person \in names : \A b \in Buckets :
                FNear(probabilities'[person][b[1]][b[2]], probabilities[person][b[1]][b[2]])]_vars

\* C10 witness: the loop is over on a well-formed pedigree without trait
\* evidence in which somebody has parents; the distributions add up to 1
\* to within 1e-9, and one of them not to exactly 1.0.
C10_Witness ==
    /\ LoopIsOver
    /\ WellFormed
    /\ Known = {}
    /\ Children # {}
    /\ \A person \in names : Near(GeneSeq(person), 1, 1) /\ Near(TraitSeq(person), 1, 1)
    /\ \E person \in names : total(probabilities, person, "gene") # One

\* The distributions in the order normalize visits them: person by person
\* in the order of the rows, gene before trait.
Visits == [k \in 1..(2 * Len(people)) |->
              <<people[(k + 1) \div 2].name, IF k % 2 = 1 THEN "gene" ELSE "trait">>]

\* Every mass is zero or more, so a distribution sums to 0.0 exactly when
\* all its buckets are 0.0.
AllZero(probs, visit) == \A v \in DOMAIN probs[visit[1]][visit[2]] : probs[visit[1]][visit[2]][v] = FZero

SumsToOne(probs, visit) ==
    IF visit[2] = "gene"
    THEN Near(<<probs[visit[1]].gene[0], probs[visit[1]].gene[1], probs[visit[1]].gene[2]>>, 1, 1)
    ELSE Near(<<probs[visit[1]].trait[TRUE], probs[visit[1]].trait[FALSE]>>, 1, 1)

\* C9 as claimed: when some distribution of the marginals sums to exactly
\* 0, normalize completes without raising an error.
C9_AsClaimed ==
    [][(LoopIsOver /\ \E k \in DOMAIN Visits : AllZero(probabilities, Visits[k]))
          => pc' # "ZeroDivisionError"]_vars

\* C9 amended: when some distribution of the marginals sums to exactly 0,
\* normalize raises ZeroDivisionError at the first such distribution it
\* visits: the distributions visited before it sum to 1 afterwards, and
\* that one and the ones after it are left as they were.  When none does,
\* normalize completes.
C9_NormalizeRaisesOnZeroSum ==
    [][LoopIsOver =>
          IF \E k \in DOMAIN Visits : AllZero(probabilities, Visits[k])
          THEN /\ pc' = "ZeroDivisionError"
               /\ \A k \in DOMAIN Visits :
                     IF \E j \in 1..k : AllZero(probabilities, Visits[j])
                     THEN probabilities'[Visits[k][1]][Visits[k][2]]
                          = probabilities[Visits[k][1]][Visits[k][2]]
                     ELSE SumsToOne(probabilities', Visits[k])
          ELSE pc' = "done"]_vars

\* C9 witness: normalize has raised on marginals of two people where the
\* first person's distributions sum to 1 and the second's trait
\* distribution is all zero while its gene distribution is not.
C9_Witness ==
    /\ pc = "ZeroDivisionError"
    /\ Len(people) = 2
    /\ SumsToOne(probabilities, Visits[1])
    /\ SumsToOne(probabilities, Visits[2])
    /\ ~AllZero(probabilities, Visits[3])
    /\ AllZero(probabilities, Visits[4])

RECURSIVE Flatten(_)
Flatten(seqs) == IF seqs = <<>> THEN <<>> ELSE Head(seqs) \o Flatten(Tail(seqs))

\* The triples in the order the three loops of main visit them.
LoopOrder ==
    Flatten([k \in 1..Len(have_traits) |->
        IF fails_evidence(have_traits[k]) THEN <<>>
        ELSE Flatten([i \in 1..Len(one_genes) |->
                [j \in 1..Len(two_geness(one_genes[i])) |->
                    [one_gene |-> one_genes[i], two_genes |-> two_geness(one_genes[i])[j],
                     have_trait |-> have_traits[k]]]])])

\* The marginals after the first i triples of seq have been scored.
RECURSIVE Accumulated(_, _)
Accumulated(seq, i) ==
    IF i = 0 THEN Zeroed(names)
    ELSE update(Accumulated(seq, i - 1), seq[i].one_gene, seq[i].two_genes, seq[i].have_trait,
                joint_probability(people, seq[i].one_gene, seq[i].two_genes, seq[i].have_trait))

InLoopOrder == normalize(Accumulated(LoopOrder, Len(LoopOrder)), keys).probabilities

\* Every bucket of probs is within 1e-9 of the same bucket of ref.
AllNear(probs, ref) ==
    \A person \in DOMAIN probs : \A b \in Buckets :
        FNear(probs[person][b[1]][b[2]], ref[person][b[1]][b[2]])

\* C7 as claimed: in whatever order the hypotheses were scored, when the
\* run is over the distributions are the same as when they are scored in
\* the order of main's loops.
C7_AsClaimed == pc = "done" => probabilities = InLoopOrder

\* C7 amended: in whatever order the hypotheses were scored, when the run
\* is over every bucket of every person's gene and trait distribution is,
\* to within 1e-9, what scoring them in the order of main's loops gives.
C7_OrderDoesNotMatter ==
    pc = "done" => \E ref \in {InLoopOrder} : AllNear(probabilities, ref)

\* C7 witness: a finished run that scored the six hypotheses of one person
\* with unknown trait in another order than main's loops do, with every
\* bucket within 1e-9 of the loops' result and some bucket different.
C7_Witness ==
    /\ pc = "done"
    /\ Len(calls) = 6
    /\ calls # LoopOrder
    /\ probabilities # InLoopOrder
    /\ AllNear(probabilities, InLoopOrder)

====
